---------------------------- MODULE Spec2Model ----------------------------
(***************************************************************************)
(* Model of the pr-agent MCP server (starter/server.py): the three tools   *)
(* analyze_file_changes, get_pr_templates and suggest_template.            *)
(*                                                                         *)
(* Python strings are sequences of code points, so that split, strip,      *)
(* lower, join, the substring test and string comparison are computed as   *)
(* Python computes them.  JSON objects are records; a key is present iff   *)
(* it is in the DOMAIN of the record.                                      *)
(***************************************************************************)
EXTENDS Integers, Sequences, FiniteSets, TLC

(***************************************************************************)
(* Bounds of the model.                                                    *)
(***************************************************************************)
\* longest stdout of `git diff --name-only`
MaxFilesOut == 3
\* longest stdout of `git diff`
MaxDiffOut == 3
\* largest max_diff_lines argument
MaxDiffLines == 3
\* most entries in the templates directory
MaxTemplates == 3

(***************************************************************************)
(* String literals of the program.                                         *)
(***************************************************************************)
\* "No workspace roots available"
ERR_NO_ROOTS ==
  <<78, 111, 32, 119, 111, 114, 107, 115, 112, 97, 99, 101, 32, 114, 111, 111, 116, 115, 32, 97, 118, 97, 105, 108, 97, 98, 108, 101>>
\* "Failed to get changed files"
ERR_FILES ==
  <<70, 97, 105, 108, 101, 100, 32, 116, 111, 32, 103, 101, 116, 32, 99, 104, 97, 110, 103, 101, 100, 32, 102, 105, 108, 101, 115>>
\* "Stats unavailable"
STATS_UNAVAILABLE ==
  <<83, 116, 97, 116, 115, 32, 117, 110, 97, 118, 97, 105, 108, 97, 98, 108, 101>>
\* "Unexpected error occurred"
ERR_UNEXPECTED ==
  <<85, 110, 101, 120, 112, 101, 99, 116, 101, 100, 32, 101, 114, 114, 111, 114, 32, 111, 99, 99, 117, 114, 114, 101, 100>>
\* "Diff truncated to "
TRUNC_A ==
  <<68, 105, 102, 102, 32, 116, 114, 117, 110, 99, 97, 116, 101, 100, 32, 116, 111, 32>>
\* " lines (total: "
TRUNC_B ==
  <<32, 108, 105, 110, 101, 115, 32, 40, 116, 111, 116, 97, 108, 58, 32>>
\* " lines)"
TRUNC_C ==
  <<32, 108, 105, 110, 101, 115, 41>>
\* "projects/unit3/templates"
TEMPLATES_DIR ==
  <<112, 114, 111, 106, 101, 99, 116, 115, 47, 117, 110, 105, 116, 51, 47, 116, 101, 109, 112, 108, 97, 116, 101, 115>>
\* "Templates directory not found at "
MSG_DIR_NOT_FOUND ==
  <<84, 101, 109, 112, 108, 97, 116, 101, 115, 32, 100, 105, 114, 101, 99, 116, 111, 114, 121, 32, 110, 111, 116, 32, 102, 111, 117, 110, 100, 32, 97, 116, 32>>
\* "Templates path exists but is not a directory: "
ERR_NOT_A_DIR ==
  <<84, 101, 109, 112, 108, 97, 116, 101, 115, 32, 112, 97, 116, 104, 32, 101, 120, 105, 115, 116, 115, 32, 98, 117, 116, 32, 105, 115, 32, 110, 111, 116, 32, 97, 32, 100, 105, 114, 101, 99, 116, 111, 114, 121, 58, 32>>
\* "Failed to read file: "
ERR_READ ==
  <<70, 97, 105, 108, 101, 100, 32, 116, 111, 32, 114, 101, 97, 100, 32, 102, 105, 108, 101, 58, 32>>
\* "Could not load templates"
ERR_LOAD ==
  <<67, 111, 117, 108, 100, 32, 110, 111, 116, 32, 108, 111, 97, 100, 32, 116, 101, 109, 112, 108, 97, 116, 101, 115>>
\* "No templates available to suggest"
MSG_NO_TEMPLATES ==
  <<78, 111, 32, 116, 101, 109, 112, 108, 97, 116, 101, 115, 32, 97, 118, 97, 105, 108, 97, 98, 108, 101, 32, 116, 111, 32, 115, 117, 103, 103, 101, 115, 116>>
\* "Template name contains '"
REASON_A ==
  <<84, 101, 109, 112, 108, 97, 116, 101, 32, 110, 97, 109, 101, 32, 99, 111, 110, 116, 97, 105, 110, 115, 32, 39>>
\* "' which matches change type '"
REASON_B ==
  <<39, 32, 119, 104, 105, 99, 104, 32, 109, 97, 116, 99, 104, 101, 115, 32, 99, 104, 97, 110, 103, 101, 32, 116, 121, 112, 101, 32, 39>>
\* "'"
QUOTE ==
  <<39>>
\* "Generic template suitable for '"
GENERIC_A ==
  <<71, 101, 110, 101, 114, 105, 99, 32, 116, 101, 109, 112, 108, 97, 116, 101, 32, 115, 117, 105, 116, 97, 98, 108, 101, 32, 102, 111, 114, 32, 39>>
\* "' changes"
GENERIC_B ==
  <<39, 32, 99, 104, 97, 110, 103, 101, 115>>
\* "No specific template found for '"
FALLBACK_A ==
  <<78, 111, 32, 115, 112, 101, 99, 105, 102, 105, 99, 32, 116, 101, 109, 112, 108, 97, 116, 101, 32, 102, 111, 117, 110, 100, 32, 102, 111, 114, 32, 39>>
\* "', using fallback template"
FALLBACK_B ==
  <<39, 44, 32, 117, 115, 105, 110, 103, 32, 102, 97, 108, 108, 98, 97, 99, 107, 32, 116, 101, 109, 112, 108, 97, 116, 101>>
\* "Consider creating a template specifically for '"
NOTE_A ==
  <<67, 111, 110, 115, 105, 100, 101, 114, 32, 99, 114, 101, 97, 116, 105, 110, 103, 32, 97, 32, 116, 101, 109, 112, 108, 97, 116, 101, 32, 115, 112, 101, 99, 105, 102, 105, 99, 97, 108, 108, 121, 32, 102, 111, 114, 32, 39>>
\* "bug"
s_bug ==
  <<98, 117, 103>>
\* "fix"
s_fix ==
  <<102, 105, 120>>
\* "hotfix"
s_hotfix ==
  <<104, 111, 116, 102, 105, 120>>
\* "patch"
s_patch ==
  <<112, 97, 116, 99, 104>>
\* "feature"
s_feature ==
  <<102, 101, 97, 116, 117, 114, 101>>
\* "enhancement"
s_enhancement ==
  <<101, 110, 104, 97, 110, 99, 101, 109, 101, 110, 116>>
\* "new"
s_new ==
  <<110, 101, 119>>
\* "docs"
s_docs ==
  <<100, 111, 99, 115>>
\* "documentation"
s_documentation ==
  <<100, 111, 99, 117, 109, 101, 110, 116, 97, 116, 105, 111, 110>>
\* "readme"
s_readme ==
  <<114, 101, 97, 100, 109, 101>>
\* "refactor"
s_refactor ==
  <<114, 101, 102, 97, 99, 116, 111, 114>>
\* "cleanup"
s_cleanup ==
  <<99, 108, 101, 97, 110, 117, 112>>
\* "improvement"
s_improvement ==
  <<105, 109, 112, 114, 111, 118, 101, 109, 101, 110, 116>>
\* "test"
s_test ==
  <<116, 101, 115, 116>>
\* "testing"
s_testing ==
  <<116, 101, 115, 116, 105, 110, 103>>
\* "spec"
s_spec ==
  <<115, 112, 101, 99>>
\* "chore"
s_chore ==
  <<99, 104, 111, 114, 101>>
\* "maintenance"
s_maintenance ==
  <<109, 97, 105, 110, 116, 101, 110, 97, 110, 99, 101>>
\* "update"
s_update ==
  <<117, 112, 100, 97, 116, 101>>
\* "breaking"
s_breaking ==
  <<98, 114, 101, 97, 107, 105, 110, 103>>
\* "major"
s_major ==
  <<109, 97, 106, 111, 114>>
\* "security"
s_security ==
  <<115, 101, 99, 117, 114, 105, 116, 121>>
\* "vulnerability"
s_vulnerability ==
  <<118, 117, 108, 110, 101, 114, 97, 98, 105, 108, 105, 116, 121>>
\* "cve"
s_cve ==
  <<99, 118, 101>>
\* "default"
s_default ==
  <<100, 101, 102, 97, 117, 108, 116>>
\* "general"
s_general ==
  <<103, 101, 110, 101, 114, 97, 108>>
\* "standard"
s_standard ==
  <<115, 116, 97, 110, 100, 97, 114, 100>>
\* "basic"
s_basic ==
  <<98, 97, 115, 105, 99>>
\* "main"
s_main ==
  <<109, 97, 105, 110>>
\* "\n"
NEWLINE ==
  <<10>>
\* ""
EMPTY ==
  <<>>

(***************************************************************************)
(* Python built-ins used by the program.                                   *)
(***************************************************************************)
\* code points str.strip() removes
Whitespace ==
  {9, 10, 11, 12, 13, 28, 29, 30, 31, 32}

\* s[i:] and s[:i] for 0 <= i <= len(s)
Drop(s, i) ==
  SubSeq(s, i + 1, Len(s))
Take(s, i) ==
  SubSeq(s, 1, i)

\* lines[:n], n possibly negative or beyond the end
slice_to(lines, n) ==
  IF n >= 0
    THEN Take(lines, IF n < Len(lines) THEN n ELSE Len(lines))
    ELSE Take(lines, IF Len(lines) + n > 0 THEN Len(lines) + n ELSE 0)

\* s.split(sep) for a one-character sep: never empty
RECURSIVE split(_, _)
split(s, sep) ==
  IF \A i \in 1..Len(s) : s[i] # sep[1]
    THEN <<s>>
    ELSE LET i == CHOOSE k \in 1..Len(s) :
                    s[k] = sep[1] /\ \A j \in 1..(k - 1) : s[j] # sep[1]
         IN  <<Take(s, i - 1)>> \o split(Drop(s, i), sep)

\* sep.join(lines)
RECURSIVE join(_, _)
join(sep, lines) ==
  IF lines = <<>> THEN EMPTY
  ELSE IF Len(lines) = 1 THEN lines[1]
  ELSE lines[1] \o sep \o join(sep, Tail(lines))

\* s.strip()
strip(s) ==
  LET keep == {i \in 1..Len(s) : s[i] \notin Whitespace}
  IN  IF keep = {} THEN EMPTY
      ELSE LET lo == CHOOSE i \in keep : \A j \in keep : i <= j
               hi == CHOOSE i \in keep : \A j \in keep : j <= i
           IN  SubSeq(s, lo, hi)

\* s.lower() on ASCII
lower(s) ==
  [i \in 1..Len(s) |-> IF s[i] \in 65..90 THEN s[i] + 32 ELSE s[i]]

\* `p in s` for strings
contains(p, s) ==
  \E i \in 0..(Len(s) - Len(p)) : SubSeq(s, i + 1, i + Len(p)) = p

\* a < b for strings: code point order, a proper prefix is smaller
str_lt(a, b) ==
  \E i \in 1..(Len(b)) :
     /\ i <= Len(a) + 1
     /\ \A j \in 1..(i - 1) : a[j] = b[j]
     /\ (i = Len(a) + 1 \/ a[i] < b[i])

\* str(n) for an integer
RECURSIVE digits(_)
digits(n) ==
  IF n < 10 THEN <<48 + n>> ELSE digits(n \div 10) \o <<48 + (n % 10)>>
str(n) ==
  IF n < 0 THEN <<45>> \o digits(0 - n) ELSE digits(n)

\* xs sorted by list.sort, which is stable; lt[i, j] tells whether the key
\* of xs[i] is smaller than the key of xs[j]
sorted(xs, lt) ==
  LET before(i) == {j \in 1..Len(xs) : lt[j, i] \/ (~lt[i, j] /\ j < i)}
  IN  [k \in 1..Len(xs) |->
         xs[CHOOSE i \in 1..Len(xs) : Cardinality(before(i)) = k - 1]]

\* [xs[i] for i in range(len(xs)) if i in kept]: the elements at the kept
\* positions, in order
select(xs, kept) ==
  LET nth(k) == CHOOSE i \in kept : Cardinality({j \in kept : j < i}) = k - 1
  IN  [k \in 1..Cardinality(kept) |-> xs[nth(k)]]

\* all strings over an alphabet up to a length
Strings(alphabet, n) ==
  UNION {[1..k -> alphabet] : k \in 0..n}

(***************************************************************************)
(* State.                                                                  *)
(***************************************************************************)
VARIABLES
  templates_dir,  \* what TEMPLATES_DIR is on disk, and what glob("*") yields
  pc,             \* where the running analyze_file_changes call stands
  args,           \* tool and arguments of the current or last call
  invocations,    \* subprocess.run calls of the current or last analyze call
  changed_files,  \* local `changed_files` of analyze_file_changes
  result,         \* local `result` dict of analyze_file_changes
  response        \* JSON payload of the last call that returned

vars ==
  <<templates_dir, pc, args, invocations, changed_files, result, response>>

\* no call has returned since the last one started
NoResponse ==
  [pending |-> TRUE]

\* json null
Null ==
  "null"

(***************************************************************************)
(* Inputs: what git and the host runtime can answer.                       *)
(***************************************************************************)
\* "fatal: bad\n"
s_fatal ==
  <<102, 97, 116, 97, 108, 58, 32, 98, 97, 100, 10>>
\* " 1 file\n"
s_stat ==
  <<32, 49, 32, 102, 105, 108, 101, 10>>
\* "git: not found"
s_exc ==
  <<103, 105, 116, 58, 32, 110, 111, 116, 32, 102, 111, 117, 110, 100>>

\* stdout of `git diff --name-only`: text over "a", "b", " ", "\n"
FilesStdouts ==
  Strings({97, 98, 32, 10}, MaxFilesOut)
\* stdout of `git diff`: text over "a", "\n"
DiffStdouts ==
  Strings({97, 10}, MaxDiffOut)
StatsStdouts ==
  {EMPTY, s_stat}
Stderrs ==
  {EMPTY, s_fatal}
FailCodes ==
  {1, 128}

\* a completed process: subprocess.CompletedProcess
Completed(rc, out, err) ==
  [returncode |-> rc, stdout |-> out, stderr |-> err]
\* subprocess.run raised (git missing, cwd gone, undecodable output)
Raised ==
  [raised |-> s_exc]

\* what one subprocess.run can produce
Outcomes(stdouts) ==
  {Completed(0, out, EMPTY) : out \in stdouts}
    \cup {Completed(rc, EMPTY, err) : rc \in FailCodes, err \in Stderrs}
    \cup {Completed(1, <<97>>, s_fatal)}
    \cup {Raised}

did_raise(o) ==
  "raised" \in DOMAIN o

(***************************************************************************)
(* analyze_file_changes                                                    *)
(***************************************************************************)
\* the except clause: lines 114-118
unexpected_error(e) ==
  [error |-> ERR_UNEXPECTED, details |-> e]

\* line 63: the file list step failed
\* variant of files_failed: the exit status of the file list step is ignored
files_failed_mutant(files_result) ==
  FALSE
files_failed(files_result) ==
  files_result.returncode # 0

\* line 69: [f.strip() for f in stdout.split('\n') if f.strip()]
\* variant of changed_files_of: the `if f.strip()` filter is left out
changed_files_of_mutant(stdout) ==
  LET lines == split(stdout, NEWLINE)
  IN  [i \in 1..Len(lines) |-> strip(lines[i])]
changed_files_of(stdout) ==
  LET lines == split(stdout, NEWLINE)
      stripped == [i \in 1..Len(lines) |-> strip(lines[i])]
  IN  select(stripped, {i \in 1..Len(lines) : stripped[i] # EMPTY})

\* line 79
\* variant of stats_of: stdout is used whatever the exit status
stats_of_mutant(stats_result) ==
  strip(stats_result.stdout)
stats_of(stats_result) ==
  IF stats_result.returncode = 0 THEN strip(stats_result.stdout)
  ELSE STATS_UNAVAILABLE

\* line 100
\* variant of exceeds: >= in place of >
exceeds_mutant(diff_lines, max_diff_lines) ==
  Len(diff_lines) >= max_diff_lines
exceeds(diff_lines, max_diff_lines) ==
  Len(diff_lines) > max_diff_lines

\* lines 97-110: the fields the diff step adds to `result`
diff_fields(diff_result, max_diff_lines) ==
  IF diff_result.returncode = 0
    THEN LET diff_lines == split(diff_result.stdout, NEWLINE)
         IN  IF exceeds(diff_lines, max_diff_lines)
               THEN [diff |-> join(NEWLINE, slice_to(diff_lines, max_diff_lines)),
                     diff_truncated |-> TRUE,
                     total_diff_lines |-> Len(diff_lines),
                     truncation_message |->
                       TRUNC_A \o str(max_diff_lines) \o TRUNC_B
                         \o str(Len(diff_lines)) \o TRUNC_C]
               ELSE [diff |-> diff_result.stdout, diff_truncated |-> FALSE]
    ELSE [diff_error |-> strip(diff_result.stderr)]

\* lines 46-53: the call starts; the host runtime answers list_roots
AnalyzeStart(base_branch, include_diff, max_diff_lines, roots) ==
  /\ pc = "idle"
  /\ args' = [tool |-> "analyze_file_changes", base_branch |-> base_branch,
              include_diff |-> include_diff, max_diff_lines |-> max_diff_lines]
  /\ invocations' = <<>>
  /\ changed_files' = <<>>
  /\ result' = NoResponse
  /\ IF roots = "raise"
       THEN pc' = "idle" /\ response' = unexpected_error(s_exc)
     ELSE IF roots = "none"
       THEN pc' = "idle" /\ response' = [error |-> ERR_NO_ROOTS]
     ELSE pc' = "name-only" /\ response' = NoResponse
  /\ UNCHANGED templates_dir

\* lines 56-69: git diff --name-only
GitNameOnly(files_result) ==
  /\ pc = "name-only"
  /\ invocations' = Append(invocations, [cmd |-> "name-only"] @@ files_result)
  /\ IF did_raise(files_result)
       THEN /\ pc' = "idle"
            /\ response' = unexpected_error(files_result.raised)
            /\ UNCHANGED changed_files
     ELSE IF files_failed(files_result)
       THEN /\ pc' = "idle"
            /\ response' = [error |-> ERR_FILES,
                            details |-> strip(files_result.stderr)]
            /\ UNCHANGED changed_files
     ELSE /\ pc' = "stat"
          /\ changed_files' = changed_files_of(files_result.stdout)
          /\ UNCHANGED response
  /\ UNCHANGED <<templates_dir, args, result>>

\* lines 72-89 and 112: git diff --stat, then `result` is built
GitStat(stats_result) ==
  /\ pc = "stat"
  /\ invocations' = Append(invocations, [cmd |-> "stat"] @@ stats_result)
  /\ IF did_raise(stats_result)
       THEN /\ pc' = "idle"
            /\ response' = unexpected_error(stats_result.raised)
            /\ UNCHANGED result
     ELSE LET r == [changed_files |-> changed_files,
                    file_count |-> Len(changed_files),
                    stats |-> stats_of(stats_result),
                    base_branch |-> args.base_branch]
          IN  /\ result' = r
              /\ IF args.include_diff
                   THEN pc' = "diff" /\ UNCHANGED response
                   ELSE pc' = "idle" /\ response' = r
  /\ UNCHANGED <<templates_dir, args, changed_files>>

\* lines 90-112: git diff, then the report is returned
GitDiff(diff_result) ==
  /\ pc = "diff"
  /\ invocations' = Append(invocations, [cmd |-> "diff"] @@ diff_result)
  /\ pc' = "idle"
  /\ IF did_raise(diff_result)
       THEN /\ response' = unexpected_error(diff_result.raised)
            /\ UNCHANGED result
     ELSE /\ result' = diff_fields(diff_result, args.max_diff_lines) @@ result
          /\ response' = result'
  /\ UNCHANGED <<templates_dir, args, changed_files>>

(***************************************************************************)
(* The templates directory.                                                *)
(***************************************************************************)
\* "# PR"
s_content ==
  <<35, 32, 80, 82>>
\* "Permission denied"
s_denied ==
  <<80, 101, 114, 109, 105, 115, 115, 105, 111, 110, 32, 100, 101, 110, 105, 101, 100>>
\* "bugfix.md"
f_bugfix ==
  <<98, 117, 103, 102, 105, 120, 46, 109, 100>>
\* "afix.md"
f_afix ==
  <<97, 102, 105, 120, 46, 109, 100>>
\* "default.md"
f_default ==
  <<100, 101, 102, 97, 117, 108, 116, 46, 109, 100>>
\* "Basic_Bug.md"
f_basic_bug ==
  <<66, 97, 115, 105, 99, 95, 66, 117, 103, 46, 109, 100>>
\* "feature.md"
f_feature ==
  <<102, 101, 97, 116, 117, 114, 101, 46, 109, 100>>
\* "zz.txt"
f_zz ==
  <<122, 122, 46, 116, 120, 116>>
\* "general.md"
f_general ==
  <<103, 101, 110, 101, 114, 97, 108, 46, 109, 100>>
\* "bugs", a subdirectory
f_bugs ==
  <<98, 117, 103, 115>>

\* one entry of the directory, as glob("*") yields it
DirEntry(name, is_file, readable) ==
  [name |-> name, is_file |-> is_file, readable |-> readable,
   content |-> s_content]

DirEntries ==
  {DirEntry(n, TRUE, TRUE) :
     n \in {f_bugfix, f_afix, f_default, f_basic_bug, f_feature, f_general}}
    \cup {DirEntry(f_zz, TRUE, FALSE), DirEntry(f_bugs, FALSE, TRUE)}

\* glob("*") yields the entries in any order, each name once
Listings ==
  {l \in UNION {[1..k -> DirEntries] : k \in 0..MaxTemplates} :
     \A i, j \in 1..Len(l) : i # j => l[i] # l[j]}

TemplateDirs ==
  {[kind |-> "missing", entries |-> <<>>], [kind |-> "file", entries |-> <<>>]}
    \cup {[kind |-> "dir", entries |-> l] : l \in Listings}

(***************************************************************************)
(* get_pr_templates                                                        *)
(***************************************************************************)
\* lines 142-157: the entry made for one file
template_of(template_file) ==
  IF template_file.readable
    THEN [name |-> template_file.name, path |-> template_file.name,
          content |-> template_file.content,
          size |-> Len(template_file.content)]
    ELSE [name |-> template_file.name, path |-> template_file.name,
          error |-> ERR_READ \o s_denied]

\* line 160: templates.sort(key=lambda x: x["name"])
\* variant of sort_by_name: the listing order is kept
sort_by_name_mutant(templates) ==
  templates
sort_by_name(templates) ==
  sorted(templates, [i, j \in 1..Len(templates) |->
                      str_lt(templates[i].name, templates[j].name)])

\* lines 124-166
get_pr_templates(dir) ==
  IF dir.kind = "missing"
    THEN [templates |-> <<>>, template_count |-> 0,
          message |-> MSG_DIR_NOT_FOUND \o TEMPLATES_DIR]
  ELSE IF dir.kind # "dir"
    THEN [error |-> ERR_NOT_A_DIR \o TEMPLATES_DIR]
  ELSE LET files == select(dir.entries,
                             {i \in 1..Len(dir.entries) : dir.entries[i].is_file})
           templates == sort_by_name([i \in 1..Len(files) |->
                                        template_of(files[i])])
       IN  [templates |-> templates, template_count |-> Len(templates),
            templates_dir |-> TEMPLATES_DIR]

(***************************************************************************)
(* suggest_template                                                        *)
(***************************************************************************)
\* lines 204-213: keys and pattern lists, in the order of the source
\* variant of type_mappings: the key "bug" is not among its own patterns
type_mappings_mutant ==
  [k \in {s_bug, s_feature} |->
     IF k = s_bug THEN <<s_fix, s_hotfix, s_patch>>
     ELSE <<s_feature, s_enhancement, s_new>>]
type_mappings ==
  [k \in {s_bug, s_feature, s_docs, s_refactor, s_test, s_chore, s_breaking,
          s_security} |->
     CASE k = s_bug      -> <<s_bug, s_fix, s_hotfix, s_patch>>
       [] k = s_feature  -> <<s_feature, s_enhancement, s_new>>
       [] k = s_docs     -> <<s_docs, s_documentation, s_readme>>
       [] k = s_refactor -> <<s_refactor, s_cleanup, s_improvement>>
       [] k = s_test     -> <<s_test, s_testing, s_spec>>
       [] k = s_chore    -> <<s_chore, s_maintenance, s_update>>
       [] k = s_breaking -> <<s_breaking, s_major>>
       [] k = s_security -> <<s_security, s_vulnerability, s_cve>>]

\* line 220: type_mappings.get(change_type_lower, [change_type_lower])
\* variant of patterns_to_check: the dictionary is not consulted
patterns_to_check_mutant(change_type_lower) ==
  <<change_type_lower>>
patterns_to_check(change_type_lower) ==
  IF change_type_lower \in DOMAIN type_mappings
    THEN type_mappings[change_type_lower]
    ELSE <<change_type_lower>>

\* line 238
generic_patterns ==
  <<s_default, s_general, s_standard, s_basic>>

\* lines 226-232: the first pattern found in the name, 0 when there is none
first_match(patterns, template_name_lower) ==
  LET hits == {i \in 1..Len(patterns) :
                 contains(patterns[i], template_name_lower)}
  IN  IF hits = {} THEN 0 ELSE CHOOSE i \in hits : \A j \in hits : i <= j

\* line 230
pattern_reason(pattern, change_type) ==
  REASON_A \o pattern \o REASON_B \o change_type \o QUOTE
\* line 241
generic_reason(change_type) ==
  GENERIC_A \o change_type \o GENERIC_B
\* line 279
fallback_reason(change_type) ==
  FALLBACK_A \o change_type \o FALLBACK_B
\* line 285
note_of(change_type) ==
  NOTE_A \o change_type \o GENERIC_B

\* lines 222-232: the primary pass
pattern_matches(available_templates, change_type) ==
  LET patterns == patterns_to_check(lower(change_type))
      hit(i) == first_match(patterns, lower(available_templates[i].name))
      found == select(available_templates,
                      {i \in 1..Len(available_templates) : hit(i) # 0})
  IN  [k \in 1..Len(found) |->
         [match_reason |->
            pattern_reason(patterns[first_match(patterns, lower(found[k].name))],
                           change_type)] @@ found[k]]

\* lines 236-242: the pass over the generic names
generic_matches(available_templates, change_type) ==
  LET found == select(available_templates,
                 {i \in 1..Len(available_templates) :
                    first_match(generic_patterns,
                                lower(available_templates[i].name)) # 0})
  IN  [k \in 1..Len(found) |->
         [match_reason |-> generic_reason(change_type)] @@ found[k]]

\* line 235: `if not matching_templates`
\* variant of no_direct_matches: the generic pass always runs
no_direct_matches_mutant(matching_templates) ==
  TRUE
no_direct_matches(matching_templates) ==
  matching_templates = <<>>

\* lines 216-242
matching_templates_of(available_templates, change_type) ==
  LET direct == pattern_matches(available_templates, change_type)
  IN  IF no_direct_matches(direct)
        THEN direct \o generic_matches(available_templates, change_type)
        ELSE direct

\* lines 247-250: the sort key (change_type_lower not in name.lower(), name)
\* variant of rank_lt: the key is the name alone
rank_lt_mutant(change_type_lower, a, b) ==
  str_lt(a.name, b.name)
rank_lt(change_type_lower, a, b) ==
  LET ka == ~contains(change_type_lower, lower(a.name))
      kb == ~contains(change_type_lower, lower(b.name))
  IN  \/ ~ka /\ kb
      \/ ka = kb /\ str_lt(a.name, b.name)

\* the three fields reported of a match: lines 255-259 and 263-267
brief(t) ==
  [name |-> t.name, path |-> t.path, match_reason |-> t.match_reason]

\* lines 183-292
suggest_template(changes_summary, change_type, dir) ==
  LET templates_data == get_pr_templates(dir)
  IN
  IF "error" \in DOMAIN templates_data
    THEN [error |-> ERR_LOAD, details |-> templates_data.error]
  ELSE IF templates_data.templates = <<>>
    THEN [suggestion |-> Null, message |-> MSG_NO_TEMPLATES,
          templates_dir |-> IF "templates_dir" \in DOMAIN templates_data
                              THEN templates_data.templates_dir
                              ELSE TEMPLATES_DIR]
  ELSE
    LET available_templates == templates_data.templates
        unranked == matching_templates_of(available_templates, change_type)
        matching_templates ==
          sorted(unranked, [i, j \in 1..Len(unranked) |->
                              rank_lt(lower(change_type), unranked[i], unranked[j])])
    IN  IF matching_templates # <<>>
          THEN [suggested_template |-> brief(matching_templates[1]),
                change_type |-> change_type,
                changes_summary |-> changes_summary,
                all_matches |-> [i \in 1..Len(matching_templates) |->
                                   brief(matching_templates[i])],
                total_available_templates |-> Len(available_templates)]
          ELSE [suggested_template |->
                  [name |-> available_templates[1].name,
                   path |-> available_templates[1].path,
                   match_reason |-> fallback_reason(change_type)],
                change_type |-> change_type,
                changes_summary |-> changes_summary,
                all_matches |-> <<>>,
                total_available_templates |-> Len(available_templates),
                note |-> note_of(change_type)]

\* "Bug"
s_Bug ==
  <<66, 117, 103>>
\* "obscure_xyz"
s_obscure_xyz ==
  <<111, 98, 115, 99, 117, 114, 101, 95, 120, 121, 122>>
\* "tidy"
s_tidy ==
  <<116, 105, 100, 121>>

ChangeTypes ==
  {s_bug, s_Bug, s_fix, EMPTY, s_obscure_xyz, s_feature}
Summaries ==
  {EMPTY, s_tidy}

\* the tool call get_pr_templates()
GetPrTemplates ==
  /\ pc = "idle"
  /\ args' = [tool |-> "get_pr_templates"]
  /\ response' = get_pr_templates(templates_dir)
  /\ UNCHANGED <<templates_dir, pc, invocations, changed_files, result>>

\* the tool call suggest_template(changes_summary, change_type)
SuggestTemplate(changes_summary, change_type) ==
  /\ pc = "idle"
  /\ args' = [tool |-> "suggest_template", changes_summary |-> changes_summary,
              change_type |-> change_type]
  /\ response' = suggest_template(changes_summary, change_type, templates_dir)
  /\ UNCHANGED <<templates_dir, pc, invocations, changed_files, result>>

(***************************************************************************)
(* Specifications.                                                         *)
(***************************************************************************)
InitCommon ==
  /\ pc = "idle"
  /\ args = [tool |-> "none"]
  /\ invocations = <<>>
  /\ changed_files = <<>>
  /\ result = NoResponse
  /\ response = NoResponse

\* the server with an absent templates directory, serving analyze calls
InitGit ==
  /\ InitCommon
  /\ templates_dir = [kind |-> "missing", entries |-> <<>>]

\* the server over any templates directory, serving the template tools
InitTemplates ==
  /\ InitCommon
  /\ templates_dir \in TemplateDirs

Roots ==
  {"some", "none", "raise"}

StartAnalyze ==
  \E include_diff \in BOOLEAN, max_diff_lines \in (0 - 1)..MaxDiffLines,
     roots \in Roots :
       AnalyzeStart(s_main, include_diff, max_diff_lines, roots)
RunNameOnly ==
  \E o \in Outcomes(FilesStdouts) : GitNameOnly(o)
RunStat ==
  \E o \in Outcomes(StatsStdouts) : GitStat(o)
RunDiff ==
  \E o \in Outcomes(DiffStdouts) : GitDiff(o)
CallSuggestTemplate ==
  \E s \in Summaries, c \in ChangeTypes : SuggestTemplate(s, c)

NextGit ==
  \/ StartAnalyze
  \/ RunNameOnly
  \/ RunStat
  \/ RunDiff

NextTemplates ==
  \/ GetPrTemplates
  \/ CallSuggestTemplate

SpecGit ==
  InitGit /\ [][NextGit]_vars

SpecTemplates ==
  InitTemplates /\ [][NextTemplates]_vars

(***************************************************************************)
(* Properties of analyze_file_changes, checked under SpecGit.              *)
(***************************************************************************)
\* the last call was analyze_file_changes and it has returned
AnalyzeReturned ==
  pc = "idle" /\ args.tool = "analyze_file_changes"

\* the i-th git invocation of the call completed (it did not raise)
Ran(i) ==
  i <= Len(invocations) /\ ~did_raise(invocations[i])

\* the i-th git invocation of the call completed with exit status 0
Succeeded(i) ==
  Ran(i) /\ invocations[i].returncode = 0

\* the call returned after a successful diff step
DiffReturned ==
  AnalyzeReturned /\ Succeeded(1) /\ Ran(2) /\ Succeeded(3)

\* positions of the newlines of a text
NewlinesOf(text) ==
  {i \in 1..Len(text) : text[i] = 10}

\* lines of a text as split counts them: one more than its newlines
LineCount(text) ==
  Cardinality(NewlinesOf(text)) + 1

\* the first n lines of a text of more than n lines, joined by newline:
\* the text before its n-th newline
FirstLines(text, n) ==
  IF n = 0 THEN EMPTY
  ELSE LET nth == CHOOSE i \in NewlinesOf(text) :
                    Cardinality({j \in NewlinesOf(text) : j < i}) = n - 1
       IN  Take(text, nth - 1)

\* C1: with include_diff and a successful diff step, for max_diff_lines >= 0,
\* a diff of exactly max_diff_lines lines is returned whole with
\* diff_truncated = false, and a diff of max_diff_lines + 1 lines is returned
\* as its first max_diff_lines lines joined by newline with
\* diff_truncated = true; lines are the segments between newlines, so the
\* empty output has one line and a trailing newline ends in an empty line.
C1_TruncationBoundary ==
  (DiffReturned /\ args.max_diff_lines >= 0) =>
    LET stdout == invocations[3].stdout
        n == args.max_diff_lines
    IN  /\ LineCount(stdout) = n =>
             /\ response.diff_truncated = FALSE
             /\ response.diff = stdout
        /\ LineCount(stdout) = n + 1 =>
             /\ response.diff_truncated = TRUE
             /\ response.diff = FirstLines(stdout, n)
             /\ response.total_diff_lines = n + 1

\* a diff of two lines ending in a newline (three segments) cut to two lines
C1_Witness ==
  /\ DiffReturned
  /\ args.max_diff_lines = 2
  /\ invocations[3].stdout = <<97, 10, 10>>
  /\ response.diff_truncated = TRUE
  /\ response.diff = <<97, 10>>

\* C5: each of the three git invocations is started at most once in a call;
\* stat and diff are started only after name-only exited with status 0; and
\* when name-only exits non-zero the call returns {error, details} with that
\* invocation's stderr and starts nothing else.
C5_FileListFailureShortCircuits ==
  /\ \A i, j \in 1..Len(invocations) :
       invocations[i].cmd = invocations[j].cmd => i = j
  /\ \A i \in 1..Len(invocations) :
       invocations[i].cmd \in {"stat", "diff"} =>
         i > 1 /\ invocations[1].cmd = "name-only" /\ Succeeded(1)
  /\ (Ran(1) /\ invocations[1].returncode # 0) =>
       /\ Len(invocations) = 1
       /\ pc = "idle"
       /\ DOMAIN response = {"error", "details"}
       /\ response.error = ERR_FILES
       /\ response.details = strip(invocations[1].stderr)

\* name-only exited 128 with a message on stderr, and the call has returned
C5_Witness ==
  /\ AnalyzeReturned
  /\ Ran(1)
  /\ invocations[1].returncode = 128
  /\ invocations[1].stderr = s_fatal
  /\ Len(invocations) = 1
  /\ response.details = strip(s_fatal)

\* C6: after a successful file list step, a non-zero exit of the stat or of
\* the diff step does not abort the report: it has no error key and carries
\* changed_files, file_count and base_branch; a failed stat step gives the
\* placeholder for stats; a failed diff step gives diff_error with the
\* stripped stderr and neither diff nor diff_truncated; and the diff step
\* runs when include_diff is true even though the stat step failed.
C6_DegradedStepsDoNotAbort ==
  /\ (Succeeded(1) /\ Ran(2) /\ args.include_diff /\ Len(invocations) = 2) =>
       pc = "diff"
  /\ (AnalyzeReturned /\ Succeeded(1) /\ Ran(2)
        /\ (args.include_diff => Ran(3))) =>
       /\ "error" \notin DOMAIN response
       /\ {"changed_files", "file_count", "base_branch", "stats"}
            \subseteq DOMAIN response
       /\ response.changed_files = changed_files
       /\ response.base_branch = args.base_branch
       /\ invocations[2].returncode # 0 => response.stats = STATS_UNAVAILABLE
       /\ args.include_diff => Len(invocations) = 3
       /\ (args.include_diff /\ invocations[3].returncode # 0) =>
            /\ "diff" \notin DOMAIN response
            /\ "diff_truncated" \notin DOMAIN response
            /\ response.diff_error = strip(invocations[3].stderr)

\* both the stat and the diff step failed and the report was still returned
C6_Witness ==
  /\ AnalyzeReturned
  /\ Succeeded(1)
  /\ Ran(2) /\ invocations[2].returncode # 0
  /\ Ran(3) /\ invocations[3].returncode # 0
  /\ invocations[3].stderr = s_fatal
  /\ response.stats = STATS_UNAVAILABLE
  /\ response.diff_error = strip(s_fatal)
  /\ response.changed_files # <<>>

\* a line with nothing but whitespace
Blank(line) ==
  \A i \in 1..Len(line) : line[i] \in Whitespace

\* C8: changed_files has no empty and no whitespace-only entry; it is the
\* non-blank lines of the tool's output (stripped), in output order, nothing
\* merged or reordered; and file_count is its length.
C8_ChangedFilesHasNoBlankEntry ==
  (Succeeded(1) /\ "changed_files" \in DOMAIN response) =>
    LET lines == split(invocations[1].stdout, NEWLINE)
        kept == {i \in 1..Len(lines) : ~Blank(lines[i])}
        files == response.changed_files
    IN  /\ \A k \in 1..Len(files) : files[k] # EMPTY /\ ~Blank(files[k])
        /\ response.file_count = Len(files)
        /\ Len(files) = Cardinality(kept)
        /\ \E at \in [1..Len(files) -> kept] :
             /\ \A k, l \in 1..Len(files) : k < l => at[k] < at[l]
             /\ \A k \in 1..Len(files) : files[k] = strip(lines[at[k]])

\* blank lines before and after the one file name of the output
C8_Witness ==
  /\ AnalyzeReturned
  /\ Succeeded(1)
  /\ invocations[1].stdout = <<10, 98, 10>>
  /\ "changed_files" \in DOMAIN response
  /\ response.changed_files = <<(<<98>>)>>
  /\ response.file_count = 1

(***************************************************************************)
(* Properties of suggest_template, checked under SpecTemplates.            *)
(***************************************************************************)
\* the last call was suggest_template
SuggestReturned ==
  args.tool = "suggest_template"

\* the regular files of the templates directory, in glob order
RegularFiles ==
  IF templates_dir.kind = "dir"
    THEN select(templates_dir.entries,
                {i \in 1..Len(templates_dir.entries) :
                   templates_dir.entries[i].is_file})
    ELSE <<>>

\* the names of the catalog
CatalogNames ==
  {RegularFiles[i].name : i \in 1..Len(RegularFiles)}

\* the templates path is absent or a directory, so the catalog can be read
CatalogReadable ==
  templates_dir.kind \in {"missing", "dir"}

\* place of a name in the catalog order: names in code point order
CatalogIndex(name) ==
  Cardinality({n \in CatalogNames : str_lt(n, name)}) + 1

\* the patterns selected for a change type, in the dictionary's order
SelectedPatterns(change_type) ==
  IF lower(change_type) \in DOMAIN type_mappings
    THEN type_mappings[lower(change_type)]
    ELSE <<lower(change_type)>>

\* the name contains one of the patterns
HasPattern(patterns, name) ==
  \E i \in 1..Len(patterns) : contains(patterns[i], lower(name))

\* the names of the catalog that hold a pattern of the change type
DirectNames ==
  {n \in CatalogNames : HasPattern(SelectedPatterns(args.change_type), n)}

\* the names of the catalog that hold default, general, standard or basic
GenericNames ==
  {n \in CatalogNames : HasPattern(generic_patterns, n)}

\* the name holds the lower-cased change type of the call
HoldsChangeType(name) ==
  contains(lower(args.change_type), lower(name))

\* the call returned a recommendation (the catalog was not empty)
Recommended ==
  SuggestReturned /\ "all_matches" \in DOMAIN response

\* the names of all_matches, in order
MatchNames ==
  [i \in 1..Len(response.all_matches) |-> response.all_matches[i].name]

\* all_matches is sorted by the ranking key: names holding the change type
\* first, then name ascending
RankSorted ==
  \A i, j \in 1..Len(MatchNames) :
    i < j =>
      \/ HoldsChangeType(MatchNames[i]) /\ ~HoldsChangeType(MatchNames[j])
      \/ /\ HoldsChangeType(MatchNames[i]) = HoldsChangeType(MatchNames[j])
         /\ str_lt(MatchNames[i], MatchNames[j])

\* C2 as stated: over an empty catalog suggest_template returns a null
\* suggestion and total_available_templates = 0, and no error key.
C2_EmptyCatalogPayload ==
  (SuggestReturned /\ CatalogReadable /\ CatalogNames = {}) =>
    /\ "error" \notin DOMAIN response
    /\ \/ "suggested_template" \in DOMAIN response
            /\ response.suggested_template = Null
       \/ "suggestion" \in DOMAIN response /\ response.suggestion = Null
    /\ "total_available_templates" \in DOMAIN response
    /\ response.total_available_templates = 0

\* C3 as stated: all_matches is a subsequence of the catalog in catalog
\* order, sorted by the ranking key, and suggested is its first element.
C3_SubsequenceInCatalogOrder ==
  Recommended =>
    /\ \A i \in 1..Len(MatchNames) : MatchNames[i] \in CatalogNames
    /\ \A i, j \in 1..Len(MatchNames) :
         i < j => CatalogIndex(MatchNames[i]) < CatalogIndex(MatchNames[j])
    /\ RankSorted
    /\ response.all_matches # <<>> =>
         response.suggested_template = response.all_matches[1]

\* C3, amended: every entry of all_matches is a catalog template, none is
\* repeated, all_matches is sorted by the ranking key, and suggested is its
\* first element when it is not empty; catalog order is kept among the
\* entries that hold the change type and among those that do not, not
\* between the two groups.
C3_RankedSelectionOfCatalog ==
  Recommended =>
    /\ \A i \in 1..Len(MatchNames) : MatchNames[i] \in CatalogNames
    /\ \A i, j \in 1..Len(MatchNames) :
         i # j => MatchNames[i] # MatchNames[j]
    /\ RankSorted
    /\ \A i, j \in 1..Len(MatchNames) :
         (i < j /\ HoldsChangeType(MatchNames[i]) = HoldsChangeType(MatchNames[j]))
           => CatalogIndex(MatchNames[i]) < CatalogIndex(MatchNames[j])
    /\ response.all_matches # <<>> =>
         response.suggested_template = response.all_matches[1]

\* "bug" over afix.md and bugfix.md: bugfix.md is ranked before afix.md
C3_Witness ==
  /\ Recommended
  /\ args.change_type = s_bug
  /\ CatalogNames = {f_afix, f_bugfix}
  /\ MatchNames = <<f_bugfix, f_afix>>
  /\ response.suggested_template.name = f_bugfix

\* C4: when the primary pass matches, all_matches holds exactly the catalog
\* templates whose lower-cased name contains a pattern selected for the
\* lower-cased change type, each once, and each match_reason cites the first
\* such pattern in the dictionary's order and the change type as supplied.
C4_PrimaryPassFirstPatternWins ==
  (Recommended /\ DirectNames # {}) =>
    LET patterns == SelectedPatterns(args.change_type)
    IN  /\ {MatchNames[i] : i \in 1..Len(MatchNames)} = DirectNames
        /\ Len(MatchNames) = Cardinality(DirectNames)
        /\ \A i \in 1..Len(MatchNames) :
             \E p \in 1..Len(patterns) :
               /\ contains(patterns[p], lower(MatchNames[i]))
               /\ \A q \in 1..(p - 1) :
                    ~contains(patterns[q], lower(MatchNames[i]))
               /\ response.all_matches[i].match_reason =
                    pattern_reason(patterns[p], args.change_type)

\* "Bug" over bugfix.md and feature.md suggests bugfix.md, citing 'bug' and
\* the change type as the caller wrote it
C4_Witness ==
  /\ Recommended
  /\ args.change_type = s_Bug
  /\ CatalogNames = {f_bugfix, f_feature}
  /\ MatchNames = <<f_bugfix>>
  /\ response.suggested_template.name = f_bugfix
  /\ response.suggested_template.match_reason = pattern_reason(s_bug, s_Bug)

\* C7: over a non-empty catalog where neither pass matches, suggested is the
\* template with the smallest file name, whatever order the directory was
\* listed in; all_matches is empty, total_available_templates is the catalog
\* size and a note is given.
C7_FallbackIsSmallestName ==
  (SuggestReturned /\ templates_dir.kind = "dir" /\ CatalogNames # {}
     /\ DirectNames = {} /\ GenericNames = {}) =>
    /\ "error" \notin DOMAIN response
    /\ \A n \in CatalogNames :
         n = response.suggested_template.name
           \/ str_lt(response.suggested_template.name, n)
    /\ response.suggested_template.name \in CatalogNames
    /\ response.suggested_template.match_reason =
         fallback_reason(args.change_type)
    /\ response.all_matches = <<>>
    /\ response.total_available_templates = Cardinality(CatalogNames)
    /\ "note" \in DOMAIN response
    /\ response.note = note_of(args.change_type)

\* zz.txt was listed before feature.md, and feature.md is suggested
C7_Witness ==
  /\ SuggestReturned
  /\ args.change_type = s_obscure_xyz
  /\ templates_dir.kind = "dir"
  /\ Len(RegularFiles) = 2
  /\ RegularFiles[1].name = f_zz
  /\ RegularFiles[2].name = f_feature
  /\ response.suggested_template.name = f_feature
  /\ response.all_matches = <<>>
  /\ "note" \in DOMAIN response

\* C9: when the primary pass matches a template, every entry of all_matches
\* holds a pattern of the change type and none has the generic reason; when
\* it matches none, all_matches holds exactly the templates whose name
\* contains default, general, standard or basic, each with the generic
\* reason naming the change type.
C9_GenericPassOnlyWithoutDirectMatch ==
  Recommended =>
    /\ DirectNames # {} =>
         \A i \in 1..Len(MatchNames) :
           /\ MatchNames[i] \in DirectNames
           /\ response.all_matches[i].match_reason #
                generic_reason(args.change_type)
    /\ DirectNames = {} =>
         /\ {MatchNames[i] : i \in 1..Len(MatchNames)} = GenericNames
         /\ Len(MatchNames) = Cardinality(GenericNames)
         /\ \A i \in 1..Len(MatchNames) :
              response.all_matches[i].match_reason =
                generic_reason(args.change_type)

\* "obscure_xyz" over a catalog of default.md alone
C9_Witness ==
  /\ Recommended
  /\ args.change_type = s_obscure_xyz
  /\ CatalogNames = {f_default}
  /\ MatchNames = <<f_default>>
  /\ response.suggested_template.name = f_default
  /\ response.suggested_template.match_reason = generic_reason(s_obscure_xyz)

\* all_matches came from the pass over the generic names
FromGenericPass ==
  /\ Recommended
  /\ response.all_matches # <<>>
  /\ response.all_matches[1].match_reason = generic_reason(args.change_type)

\* C10: when all_matches comes from the generic pass, no matched name holds
\* the lower-cased change type, all_matches is the generic templates in
\* catalog order, and suggested is the first generic template of the catalog.
C10_GenericMatchesKeepCatalogOrder ==
  FromGenericPass =>
    /\ \A i \in 1..Len(MatchNames) : ~HoldsChangeType(MatchNames[i])
    /\ {MatchNames[i] : i \in 1..Len(MatchNames)} = GenericNames
    /\ \A i, j \in 1..Len(MatchNames) :
         i < j => CatalogIndex(MatchNames[i]) < CatalogIndex(MatchNames[j])
    /\ response.suggested_template.name \in GenericNames
    /\ \A n \in GenericNames :
         CatalogIndex(response.suggested_template.name) <= CatalogIndex(n)

\* "feature", a dictionary key, over general.md listed before default.md
C10_Witness ==
  /\ FromGenericPass
  /\ args.change_type = s_feature
  /\ Len(RegularFiles) = 2
  /\ RegularFiles[1].name = f_general
  /\ RegularFiles[2].name = f_default
  /\ MatchNames = <<f_default, f_general>>
  /\ response.suggested_template.name = f_default
=============================================================================
